---- MODULE Spec2Model ----
(***************************************************************************)
(* A model of metasv/sv_interval.py: the SVInterval entity, its ordering   *)
(* and geometric predicates, merge_intervals, the near-neighbour lookup    *)
(* interval_overlaps_interval_list, do_validation and fix_pos.             *)
(*                                                                         *)
(* An SVInterval object is a record.  None is the string "None".  A        *)
(* reference to a child (validating_interval) is the child's 1-based       *)
(* position in sub_intervals, 0 for None.  The fields ciend and native_sv  *)
(* are never read or written by the modelled methods and are left out.     *)
(***************************************************************************)
EXTENDS Integers, Sequences, FiniteSets, TLC

\* ------------------------------------------------------------------ bounds

\* The calls handed to merge_intervals, overlaps, the lookup and fix_pos have
\* their start and end in 0..MaxCoord.
MaxCoord == 3
\* The calls of a pipeline run (merge_intervals, then do_validation on each
\* result) are one base wide and start in 0..MaxStart.
MaxStart == 2
\* The calls assembled into one cluster by set_merged / merge start at 0 and
\* end in 1..MaxEnd.
MaxEnd == 2
\* The wiggle of an input call is 0 or MaxWiggle.
MaxWiggle == 2
\* The longest caller list handed to merge_intervals.
MaxLen == 3
\* The most sub_intervals a cluster assembled by set_merged / merge holds.
MaxSub == 3
\* The largest minimum-overlap-length threshold handed to overlaps.
MaxMinLen == 2

\* ------------------------------------------------------- module constants

svs_of_interest == {"DEL", "INS", "DUP", "DUP:TANDEM", "INV"}

\* order is important!
sv_sources == <<"Pindel", "BreakSeq", "HaplotypeCaller", "BreakDancer", "CNVnator">>

precise_sv_sources == {"Pindel", "BreakSeq", "HaplotypeCaller"}

\* ---------------------------------------------------------------- numbers

Min(a, b) == IF a <= b THEN a ELSE b

Max(a, b) == IF a >= b THEN a ELSE b

SetMin(S) == CHOOSE x \in S : \A y \in S : x <= y

SetMax(S) == CHOOSE x \in S : \A y \in S : x >= y

\* A float threshold is a fraction <<n, d>> with d > 0.  The thresholds used
\* are 0, 1/2, 1 (exact in binary floating point) and the default 1e-9.
\* CeilFrac(f, k) is the least integer not below f * k, so for an integer v
\* the float comparison  float(v) >= f * k  is  v >= CeilFrac(f, k).
CeilFrac(f, k) == ((f[1] * k) + f[2] - 1) \div f[2]

\* The default value of min_fraction_self and min_fraction_other: 1e-9.
default_min_fraction == <<1, 1000000000>>

\* "%d" % n for n >= 0: the decimal digits of n.
Digit(n) == <<"0", "1", "2", "3", "4", "5", "6", "7", "8", "9">>[n + 1]

RECURSIVE FormatD(_)
FormatD(n) == IF n < 0 THEN "-" \o FormatD(0 - n)
              ELSE IF n < 10 THEN Digit(n)
              ELSE FormatD(n \div 10) \o Digit(n % 10)

\* --------------------------------------------------------------- SVInterval

\* SVInterval.__init__ with the keyword arguments the callers pass.
SVInterval(chrom, start, end, name, sv_type, length, sources, gt, wiggle) ==
    [chrom |-> chrom, start |-> start, end |-> end, name |-> name,
     sv_type |-> sv_type, length |-> length, info |-> "None",
     sources |-> sources, gt |-> gt, wiggle |-> wiggle,
     sub_intervals |-> <<>>, is_precise |-> FALSE, is_validated |-> FALSE,
     validating_interval |-> 0, cipos |-> <<>>]

\* SVInterval(): every argument at its default.
DefaultSVInterval == SVInterval("None", 0, 0, "None", "None", 0, {}, "./1", 0)

\* list(interval.sources)[0]: the element of a one-element set.
FirstSource(interval) == CHOOSE s \in interval.sources : TRUE

\* SVInterval.merge
merge(self, interval) ==
    [self EXCEPT
       !.start = Min(self.start, interval.start - interval.wiggle),
       !.end = Max(self.end, interval.end + interval.wiggle),
       !.length = Max(self.length, interval.length),
       !.name = self.name \o "," \o interval.name,
       !.sub_intervals = Append(self.sub_intervals, interval),
       !.sources = self.sources \cup interval.sources]

\* set_merged with the wiggles forgotten.
set_merged_unpadded(self, interval1, interval2) ==
    [self EXCEPT
       !.chrom = interval1.chrom,
       !.start = Min(interval1.start, interval2.start),
       !.end = Max(interval1.end, interval2.end),
       !.length = Max(interval1.length, interval2.length),
       !.name = interval1.name \o "," \o interval2.name,
       !.sv_type = interval1.sv_type,
       !.info = "None",
       !.sub_intervals = <<interval1, interval2>>,
       !.sources = interval1.sources \cup interval2.sources,
       !.gt = interval1.gt]

\* SVInterval.set_merged
set_merged(self, interval1, interval2) ==
    [self EXCEPT
       !.chrom = interval1.chrom,
       !.start = Min(interval1.start - interval1.wiggle,
                     interval2.start - interval2.wiggle),
       !.end = Max(interval1.end + interval1.wiggle,
                   interval2.end + interval2.wiggle),
       !.length = Max(interval1.length, interval2.length),
       !.name = interval1.name \o "," \o interval2.name,
       !.sv_type = interval1.sv_type,
       !.info = "None",
       !.sub_intervals = <<interval1, interval2>>,
       !.sources = interval1.sources \cup interval2.sources,
       !.gt = interval1.gt]

\* The lexicographic order of the chromosome names used: "1" < "10" < "2".
ChromRank(chrom) == CASE chrom = "1" -> 1 [] chrom = "10" -> 2
                      [] chrom = "2" -> 3 [] OTHER -> 0

\* SVInterval.__lt__
lt(self, other) ==
    IF self.chrom # other.chrom THEN ChromRank(self.chrom) < ChromRank(other.chrom)
    ELSE IF self.start # other.start THEN self.start < other.start
    ELSE self.end < other.end

\* SVInterval.overlaps
overlaps(self, other, min_fraction_self, min_fraction_other, min_overlap_length_self, min_overlap_length_other) ==
    IF self.chrom # other.chrom THEN FALSE
    ELSE IF Max(self.start - self.wiggle, other.start - other.wiggle)
              >= Min(self.end + self.wiggle, other.end + other.wiggle) THEN FALSE
    ELSE LET self_length == self.end - self.start + 2 * self.wiggle
             other_length == other.end - other.start + 2 * other.wiggle
             overlap_length ==
                 Min(self.end + self.wiggle, other.end + other.wiggle)
                   - Max(self.start - self.wiggle, other.start - other.wiggle)
         IN  /\ overlap_length >= Max(CeilFrac(min_fraction_self, self_length),
                                      CeilFrac(min_fraction_other, other_length))
             /\ overlap_length >= Max(CeilFrac(min_fraction_self, 1),
                                      min_overlap_length_other)

\* SVInterval.is_adjacent
is_adjacent(self, other, gap) ==
    IF self.chrom # other.chrom THEN FALSE
    ELSE \/ (self.end + gap >= other.start /\ self.end + gap < other.end)
         \/ (other.end + gap >= self.start /\ other.end + gap < self.end)

\* SVInterval.get_start
RECURSIVE get_start(_)
get_start(self) ==
    IF self.sub_intervals = <<>> THEN self.start
    ELSE SetMin({get_start(self.sub_intervals[i]) : i \in DOMAIN self.sub_intervals})

\* SVInterval.get_end
RECURSIVE get_end(_)
get_end(self) ==
    IF self.sub_intervals = <<>> THEN self.end
    ELSE SetMax({get_end(self.sub_intervals[i]) : i \in DOMAIN self.sub_intervals})

\* ------------------------------------------------------------ list.sort

\* One insertion of the stable sort: x, which came later in the list, goes
\* before the first element it is less than.
RECURSIVE insort(_, _)
insort(s, x) ==
    IF s = <<>> THEN <<x>>
    ELSE IF lt(x, s[1]) THEN <<x>> \o s
    ELSE <<s[1]>> \o insort(Tail(s), x)

\* list.sort(): stable, by __lt__.
RECURSIVE sort(_)
sort(s) ==
    IF s = <<>> THEN <<>>
    ELSE insort(sort(SubSeq(s, 1, Len(s) - 1)), s[Len(s)])

\* bisect.bisect_left(a, x) between lo and hi: a 0-based index.
RECURSIVE bisect_left(_, _, _, _)
bisect_left(a, x, lo, hi) ==
    IF lo < hi
    THEN LET mid == (lo + hi) \div 2
         IN  IF lt(a[mid + 1], x) THEN bisect_left(a, x, mid + 1, hi)
             ELSE bisect_left(a, x, lo, mid)
    ELSE lo

\* -------------------------------------------------------- merge_intervals

\* The for loop of merge_intervals from index i on; interval_list is sorted.
RECURSIVE merge_loop(_, _, _, _)
merge_loop(interval_list, i, current_merged_interval, merged_intervals) ==
    IF i >= Len(interval_list) - 1
    THEN Append(merged_intervals, current_merged_interval)
    ELSE LET next_interval == interval_list[i + 2]
         IN  IF \/ overlaps(current_merged_interval, next_interval,
                            default_min_fraction, default_min_fraction, 1, 1)
                \/ is_adjacent(current_merged_interval, next_interval, 0)
             THEN IF current_merged_interval.sub_intervals # <<>>
                  THEN merge_loop(interval_list, i + 1,
                                  merge(current_merged_interval, next_interval),
                                  merged_intervals)
                  ELSE merge_loop(interval_list, i + 1,
                                  set_merged(DefaultSVInterval,
                                             current_merged_interval, next_interval),
                                  merged_intervals)
             ELSE merge_loop(interval_list, i + 1, next_interval,
                             Append(merged_intervals, current_merged_interval))

\* merge_intervals: the list it returns.
merge_intervals(interval_list) ==
    IF interval_list = <<>> THEN <<>>
    ELSE LET sorted == sort(interval_list)
         IN  sort(merge_loop(sorted, 0, sorted[1], <<>>))

\* interval_overlaps_interval_list
interval_overlaps_interval_list(interval, interval_list, min_fraction_self, min_fraction_other) ==
    LET index == bisect_left(interval_list, interval, 0, Len(interval_list))
    IN  IF index > 0 /\ overlaps(interval, interval_list[index],
                                 min_fraction_self, min_fraction_other, 1, 1)
        THEN TRUE
        ELSE IF index < Len(interval_list)
                  /\ overlaps(interval, interval_list[index + 1],
                              min_fraction_self, min_fraction_other, 1, 1)
        THEN TRUE
        ELSE FALSE

\* ------------------------------------------------------------ do_validation

\* lists[source]: the positions in sub_intervals of the children called by
\* source, in list order.
lists(self, source) ==
    SelectSeq([i \in DOMAIN self.sub_intervals |-> i],
              LAMBDA i : FirstSource(self.sub_intervals[i]) = source)

\* precise_merged: the children of the precise tools, merged.
precise_merged(self) ==
    merge_intervals(SelectSeq(self.sub_intervals,
                              LAMBDA interval : FirstSource(interval) \in precise_sv_sources))

\* The test with "at least once" for "exactly once".
called_at_least_once(self, source) == Len(lists(self, source)) >= 1

\* len(lists[source]) == 1
called_once(self, source) == Len(lists(self, source)) = 1

\* The test a tool's single child has to pass to validate the cluster.
child_validates(self, source, overlap_ratio) ==
    LET child == self.sub_intervals[lists(self, source)[1]]
    IN  \/ overlaps(self, child, overlap_ratio, overlap_ratio, 1, 1)
        \/ interval_overlaps_interval_list(child, precise_merged(self),
                                           overlap_ratio, overlap_ratio)

\* The tools, as positions in sv_sources, that pass the body of the for loop.
qualifying(self, overlap_ratio) ==
    {k \in DOMAIN sv_sources :
        /\ called_once(self, sv_sources[k])
        /\ child_validates(self, sv_sources[k], overlap_ratio)}

\* The for loop without its break: the last tool that passes wins.
validating_source_last(self, overlap_ratio) ==
    LET Q == qualifying(self, overlap_ratio)
    IN  IF Q = {} THEN 0 ELSE SetMax(Q)

\* The for loop over sv_sources with its break: the first tool that passes,
\* 0 when none does.
validating_source(self, overlap_ratio) ==
    LET Q == qualifying(self, overlap_ratio)
    IN  IF Q = {} THEN 0 ELSE SetMin(Q)

\* len(self.sources) > 1
several_sources(self) == Cardinality(self.sources) > 1

\* The second loop over sv_sources: the length taken when the validating
\* interval's length is 0.
fallback_length(self) ==
    LET F == {k \in DOMAIN sv_sources :
                /\ sv_sources[k] \in self.sources
                /\ lists(self, sv_sources[k]) # <<>>
                /\ self.sub_intervals[lists(self, sv_sources[k])[1]].length > 0}
    IN  IF F = {} THEN self.length
        ELSE self.sub_intervals[lists(self, sv_sources[SetMin(F)])[1]].length

\* The branch for an interval without sub_intervals, with line 127's
\* commented-out rule for inversions taken for every call.
validate_leaf_self_validating(self) ==
    [self EXCEPT !.is_precise = FirstSource(self) \in precise_sv_sources,
                 !.is_validated = TRUE]

\* The branch of do_validation for an interval without sub_intervals.
validate_leaf(self) ==
    [self EXCEPT !.is_precise = FirstSource(self) \in precise_sv_sources]

\* SVInterval.do_validation: the object when the method returns.
do_validation(self, overlap_ratio) ==
    LET s1 == [self EXCEPT !.start = get_start(self), !.end = get_end(self)]
    IN  IF s1.sv_type \notin svs_of_interest THEN s1
        ELSE IF s1.sub_intervals = <<>>
        THEN validate_leaf(s1)
        ELSE LET k == validating_source(s1, overlap_ratio)
                 s2 == IF k = 0 THEN s1
                       ELSE [s1 EXCEPT
                               !.is_validated = several_sources(s1),
                               !.validating_interval = lists(s1, sv_sources[k])[1],
                               !.is_precise = sv_sources[k] \in precise_sv_sources]
             IN  IF ~s2.is_validated THEN s2
                 ELSE IF s2.is_precise /\ s2.validating_interval # 0
                 THEN LET v == s2.sub_intervals[s2.validating_interval]
                          s3 == [s2 EXCEPT !.start = v.start, !.end = v.end,
                                           !.length = v.length, !.gt = v.gt,
                                           !.info = v.info]
                      IN  IF s3.length = 0
                          THEN [s3 EXCEPT !.length = fallback_length(s3)]
                          ELSE s3
                 ELSE s2

\* SVInterval.fix_pos: the object when the method returns.
fix_pos(self) ==
    IF self.sv_type = "INS"
    THEN LET mid == (self.start + self.end) \div 2
         IN  IF ~self.is_precise
             THEN LET s1 == [self EXCEPT !.end = self.start]
                  IN  [s1 EXCEPT !.cipos = <<"0", FormatD(s1.end - s1.start)>>]
             ELSE [self EXCEPT !.start = mid, !.end = mid]
    ELSE self

\* ------------------------------------------------------------------- state

VARIABLES
    pc,                \* where the run is
    mode,              \* which calls the run draws its input from
    call_type,         \* the sv_type of the calls of the run
    overlap_ratio,     \* the overlap_ratio of the run's do_validation calls
    interval_list,     \* the caller's list, handed to merge_intervals
    merged_intervals,  \* the list merge_intervals returned
    permuted_merged,   \* merge_intervals of the same calls in another order
    remerged,          \* merge_intervals of merged_intervals
    cursor,            \* how many of merged_intervals do_validation has seen
    cluster,           \* one SVInterval object
    before,            \* cluster as it was before the last method call
    args,              \* the arguments of the last call of a predicate
    result             \* what that call returned

vars == <<pc, mode, call_type, overlap_ratio, interval_list, merged_intervals, permuted_merged, remerged, cursor, cluster, before, args, result>>

\* ------------------------------------------------------------------ inputs

\* The start and end of a call: start <= end.
Spans == {p \in (0 .. MaxCoord) \X (0 .. MaxCoord) : p[1] <= p[2]}

\* The spans of the calls of a pipeline run.
UnitSpans == {<<st, st + 1>> : st \in 0 .. MaxStart}

\* The spans of the calls assembled into one cluster.
AnchoredSpans == {<<0, en>> : en \in 1 .. MaxEnd}

Wiggles == {0, MaxWiggle}

\* The float thresholds tried: the default 1e-9, 0.5 (the default
\* overlap_ratio) and 1.0.
Fractions == {default_min_fraction, <<1, 2>>, <<1, 1>>}

\* A call as a parser builds it: one source, the length of a deletion.
Call(chrom, span, wiggle, source, sv_type) ==
    SVInterval(chrom, span[1], span[2], "sv", sv_type, span[2] - span[1],
               {source}, "./1", wiggle)

CallSet(chroms, spans, wiggles, sources, sv_type) ==
    {Call(c, p, w, src, sv_type) :
        c \in chroms, p \in spans, w \in wiggles, src \in sources}

\* The calls a run may be handed.
Calls ==
    CASE mode = "merge" -> CallSet({"1", "2"}, Spans, Wiggles, {"Pindel"}, call_type)
      [] mode = "lookup" -> CallSet({"1"}, Spans, Wiggles, {"Pindel"}, call_type)
      [] mode = "overlap" -> CallSet({"1", "2"}, Spans, Wiggles, {"Pindel"}, call_type)
      [] mode = "fixpos" ->
             CallSet({"1"}, Spans, Wiggles, {"Pindel", "BreakDancer"}, call_type)
      [] mode = "pipeline" ->
             CallSet({"1"}, UnitSpans, Wiggles, {"Pindel", "BreakDancer"}, call_type)
      [] mode = "interval" ->
             CallSet({"1"}, AnchoredSpans, {0}, {sv_sources[k] : k \in DOMAIN sv_sources}, call_type)
      [] OTHER -> {}

\* The sv_types of a run: two of interest and one that is not.
CallTypes == {"DEL", "INS", "BND"}

\* The sv_types of a run that ends with do_validation: fix_pos, the one
\* method that tells INS from DEL, is not called.
ValidationTypes == {"DEL", "BND"}

\* Every order of the elements of s.
Orders(s) == {[i \in DOMAIN s |-> s[p[i]]] : p \in Permutations(DOMAIN s)}

InitRun(m) ==
    /\ pc = "input"
    /\ mode = m
    /\ interval_list = <<>>
    /\ merged_intervals = <<>>
    /\ permuted_merged = <<>>
    /\ remerged = <<>>
    /\ cursor = 0
    /\ cluster = DefaultSVInterval
    /\ before = DefaultSVInterval
    /\ args = <<>>
    /\ result = <<>>

\* ------------------------------------------------------------------ actions

\* A parser appends one call to the caller's list.
AddInterval ==
    /\ pc = "input"
    /\ Len(interval_list) < MaxLen
    /\ \E call \in Calls : interval_list' = Append(interval_list, call)
    /\ UNCHANGED <<pc, mode, call_type, overlap_ratio, merged_intervals, permuted_merged, remerged, cursor, cluster, before, args, result>>

\* merged_intervals = merge_intervals(interval_list); the call sorts the
\* caller's list in place.
Merge ==
    /\ pc = "input"
    /\ merged_intervals' = merge_intervals(interval_list)
    /\ interval_list' = sort(interval_list)
    /\ pc' = "merged"
    /\ UNCHANGED <<mode, call_type, overlap_ratio, permuted_merged, remerged, cursor, cluster, before, args, result>>

\* merge_intervals on the same calls in any order.
MergePermuted ==
    /\ pc = "merged"
    /\ \E permuted \in Orders(interval_list) :
          permuted_merged' = merge_intervals(permuted)
    /\ pc' = "permuted"
    /\ UNCHANGED <<mode, call_type, overlap_ratio, interval_list, merged_intervals, remerged, cursor, cluster, before, args, result>>

\* merge_intervals on the list merge_intervals returned.
MergeAgain ==
    /\ pc = "merged"
    /\ remerged' = merge_intervals(merged_intervals)
    /\ pc' = "remerged"
    /\ UNCHANGED <<mode, call_type, overlap_ratio, interval_list, merged_intervals, permuted_merged, cursor, cluster, before, args, result>>

InitMerge == InitRun("merge") /\ call_type = "DEL" /\ overlap_ratio = <<1, 2>>

NextMerge == AddInterval \/ Merge \/ MergePermuted \/ MergeAgain

SpecMerge == InitMerge /\ [][NextMerge]_vars

\* a.overlaps(b, f, g, x, y) and b.overlaps(a, g, f, y, x) for two calls.
CallOverlaps ==
    /\ pc = "input"
    /\ \E a \in Calls, b \in Calls, f \in Fractions, g \in Fractions,
          x \in 1 .. MaxMinLen, y \in 1 .. MaxMinLen :
          /\ args' = <<a, b, f, g, x, y>>
          /\ result' = <<overlaps(a, b, f, g, x, y), overlaps(b, a, g, f, y, x)>>
    /\ pc' = "called"
    /\ UNCHANGED <<mode, call_type, overlap_ratio, interval_list, merged_intervals, permuted_merged, remerged, cursor, cluster, before>>

InitOverlap == InitRun("overlap") /\ call_type = "DEL" /\ overlap_ratio = <<1, 2>>

NextOverlap == CallOverlaps

SpecOverlap == InitOverlap /\ [][NextOverlap]_vars

\* interval_overlaps_interval_list(query, merged_intervals, f, g) for a call.
Lookup ==
    /\ pc = "merged"
    /\ \E query \in Calls, f \in Fractions, g \in Fractions :
          /\ args' = <<query, f, g>>
          /\ result' = <<interval_overlaps_interval_list(query, merged_intervals, f, g)>>
    /\ pc' = "looked"
    /\ UNCHANGED <<mode, call_type, overlap_ratio, interval_list, merged_intervals, permuted_merged, remerged, cursor, cluster, before>>

InitLookup == InitRun("lookup") /\ call_type = "DEL" /\ overlap_ratio = <<1, 2>>

NextLookup == AddInterval \/ Merge \/ Lookup

SpecLookup == InitLookup /\ [][NextLookup]_vars

\* The caller's loop over the merged list: do_validation on the next one.
DoValidation ==
    /\ pc = "merged"
    /\ cursor < Len(merged_intervals)
    /\ merged_intervals' = [merged_intervals EXCEPT ![cursor + 1] = do_validation(@, overlap_ratio)]
    /\ cursor' = cursor + 1
    /\ UNCHANGED <<pc, mode, call_type, overlap_ratio, interval_list, permuted_merged, remerged, cluster, before, args, result>>

InitPipeline == InitRun("pipeline") /\ call_type \in ValidationTypes /\ overlap_ratio \in Fractions

NextPipeline == AddInterval \/ Merge \/ DoValidation

SpecPipeline == InitPipeline /\ [][NextPipeline]_vars

\* A parser constructs a call; merge_intervals takes its copy as the
\* current interval.
Construct ==
    /\ pc = "input"
    /\ \E call \in Calls : cluster' = call
    /\ pc' = "leaf"
    /\ UNCHANGED <<mode, call_type, overlap_ratio, interval_list, merged_intervals, permuted_merged, remerged, cursor, before, args, result>>

\* SVInterval().set_merged(cluster, next): the first pairing.
SetMerged ==
    /\ pc = "leaf"
    /\ \E next_interval \in Calls :
          cluster' = set_merged(DefaultSVInterval, cluster, next_interval)
    /\ before' = cluster
    /\ pc' = "composite"
    /\ UNCHANGED <<mode, call_type, overlap_ratio, interval_list, merged_intervals, permuted_merged, remerged, cursor, args, result>>

\* cluster.merge(next): a later absorption.
MergeInto ==
    /\ pc = "composite"
    /\ Len(cluster.sub_intervals) < MaxSub
    /\ \E next_interval \in Calls : cluster' = merge(cluster, next_interval)
    /\ before' = cluster
    /\ UNCHANGED <<pc, mode, call_type, overlap_ratio, interval_list, merged_intervals, permuted_merged, remerged, cursor, args, result>>

\* cluster.do_validation(ratio)
ValidateCluster ==
    /\ pc \in {"leaf", "composite"}
    /\ \E ratio \in Fractions :
          /\ cluster' = do_validation(cluster, ratio)
          /\ overlap_ratio' = ratio
    /\ before' = cluster
    /\ pc' = "validated"
    /\ UNCHANGED <<mode, call_type, interval_list, merged_intervals, permuted_merged, remerged, cursor, args, result>>

\* cluster.fix_pos()
FixPos ==
    /\ pc = "validated"
    /\ cluster' = fix_pos(cluster)
    /\ before' = cluster
    /\ pc' = "fixed"
    /\ UNCHANGED <<mode, call_type, overlap_ratio, interval_list, merged_intervals, permuted_merged, remerged, cursor, args, result>>

InitInterval == InitRun("interval") /\ call_type \in ValidationTypes /\ overlap_ratio = <<1, 2>>

NextInterval == Construct \/ SetMerged \/ MergeInto \/ ValidateCluster

SpecInterval == InitInterval /\ [][NextInterval]_vars

InitFixPos == InitRun("fixpos") /\ call_type \in CallTypes /\ overlap_ratio = <<1, 2>>

NextFixPos == Construct \/ SetMerged \/ ValidateCluster \/ FixPos

SpecFixPos == InitFixPos /\ [][NextFixPos]_vars

\* ------------------------------------------------------------------ claims

\* The list is in the total order of __lt__.
Sorted(list) == \A i \in 1 .. Len(list) - 1 : ~lt(list[i + 1], list[i])

\* No two distinct elements pass the merge-time overlap test.
NonOverlapping(list) ==
    \A i \in DOMAIN list : \A j \in DOMAIN list :
        i # j => ~overlaps(list[i], list[j], default_min_fraction, default_min_fraction, 1, 1)

\* C1: the list merge_intervals returns is sorted by (chrom, start, end) and
\* no two of its intervals overlap each other at the merge-time thresholds.
C1_SortedNonOverlapping ==
    pc = "merged" => Sorted(merged_intervals) /\ NonOverlapping(merged_intervals)

\* C2: merge_intervals returns the same sequence for every order of its
\* input: the same chrom, start and end, and the same sv_type, genotype,
\* length, sources and sub_intervals, at each position.
C2_OrderInvariance ==
    pc = "permuted" =>
        /\ Len(permuted_merged) = Len(merged_intervals)
        /\ \A i \in DOMAIN merged_intervals :
              LET a == merged_intervals[i]
                  b == permuted_merged[i]
              IN  /\ a.chrom = b.chrom /\ a.start = b.start /\ a.end = b.end
                  /\ a.sv_type = b.sv_type /\ a.gt = b.gt /\ a.length = b.length
                  /\ a.sources = b.sources /\ a.sub_intervals = b.sub_intervals

\* C3: merge_intervals of a list merge_intervals returned has as many
\* intervals, each with the same chrom, start, end, length, sources and
\* sub_intervals, in the same order.
C3_Idempotence ==
    pc = "remerged" =>
        /\ Len(remerged) = Len(merged_intervals)
        /\ \A i \in DOMAIN merged_intervals :
              LET a == merged_intervals[i]
                  b == remerged[i]
              IN  /\ a.chrom = b.chrom /\ a.start = b.start /\ a.end = b.end
                  /\ a.length = b.length /\ a.sources = b.sources
                  /\ a.sub_intervals = b.sub_intervals

\* C4: a.overlaps(b, f, g, x, y) returns what b.overlaps(a, g, f, y, x) does.
C4_OverlapSymmetry == pc = "called" => result[1] = result[2]

\* C10: interval_overlaps_interval_list on a list merge_intervals returned,
\* sorted and without overlaps among its elements, is true exactly when some
\* element of the list overlaps the query at the given fractions and a
\* minimum overlap of 1.
C10_LookupIsExhaustive ==
    (pc = "looked" /\ Sorted(merged_intervals) /\ NonOverlapping(merged_intervals)) =>
        (result[1] <=> \E i \in DOMAIN merged_intervals :
                          overlaps(args[1], merged_intervals[i], args[2], args[3], 1, 1))

\* The direct children of an interval.
Children(self) == {self.sub_intervals[i] : i \in DOMAIN self.sub_intervals}

\* The least start - wiggle and the greatest end + wiggle over the
\* descendants of a composite.
RECURSIVE DescendantMin(_)
DescendantMin(self) ==
    SetMin(UNION {{c.start - c.wiggle} \cup
                    (IF c.sub_intervals = <<>> THEN {} ELSE {DescendantMin(c)}) :
                  c \in Children(self)})

RECURSIVE DescendantMax(_)
DescendantMax(self) ==
    SetMax(UNION {{c.end + c.wiggle} \cup
                    (IF c.sub_intervals = <<>> THEN {} ELSE {DescendantMax(c)}) :
                  c \in Children(self)})

\* The least start and the greatest end of the leaves below a composite,
\* without their wiggles.
RECURSIVE LeafMin(_)
LeafMin(self) ==
    SetMin(UNION {IF c.sub_intervals = <<>> THEN {c.start} ELSE {LeafMin(c)} :
                  c \in Children(self)})

RECURSIVE LeafMax(_)
LeafMax(self) ==
    SetMax(UNION {IF c.sub_intervals = <<>> THEN {c.end} ELSE {LeafMax(c)} :
                  c \in Children(self)})

\* The children of self that tool called.
ChildrenOf(self, tool) == {i \in DOMAIN self.sub_intervals : self.sub_intervals[i].sources = {tool}}

\* The cluster do_validation tests the children against: before, with its
\* start and end taken from its leaves.
Tested == [before EXCEPT !.start = IF before.sub_intervals = <<>> THEN before.start ELSE LeafMin(before),
                         !.end = IF before.sub_intervals = <<>> THEN before.end ELSE LeafMax(before)]

\* The tools, as positions in the priority order, with exactly one child,
\* which overlaps the cluster at the validation thresholds or overlaps the
\* merged list of the precise tools' children.
QualifyingTools ==
    {k \in DOMAIN sv_sources :
        /\ Cardinality(ChildrenOf(before, sv_sources[k])) = 1
        /\ LET child == before.sub_intervals[CHOOSE i \in ChildrenOf(before, sv_sources[k]) : TRUE]
           IN  \/ overlaps(Tested, child, overlap_ratio, overlap_ratio, 1, 1)
               \/ interval_overlaps_interval_list(child, precise_merged(before), overlap_ratio, overlap_ratio)}

\* The tie-break: the validating interval is the child of the earliest
\* qualifying tool and is_precise is that tool's precision.
EarliestToolValidates ==
    /\ cluster.validating_interval \in ChildrenOf(before, sv_sources[SetMin(QualifyingTools)])
    /\ cluster.is_precise = (sv_sources[SetMin(QualifyingTools)] \in precise_sv_sources)

\* C5 as stated: on every composite with two or more qualifying tools,
\* do_validation takes the child of the earliest of them in the priority
\* order as validating_interval and sets is_precise from that tool.
C5_TieBreakAnyType ==
    (pc = "validated" /\ before.sub_intervals # <<>> /\ Cardinality(QualifyingTools) >= 2)
        => EarliestToolValidates

\* C5 as amended: on every composite whose sv_type is one of
\* svs_of_interest and that has two or more qualifying tools, do_validation
\* takes the child of the earliest of them in the priority order as
\* validating_interval and sets is_precise from that tool, whatever the order
\* of sub_intervals.
C5_TieBreak ==
    (/\ pc = "validated" /\ before.sub_intervals # <<>>
     /\ before.sv_type \in svs_of_interest
     /\ Cardinality(QualifyingTools) >= 2)
        => EarliestToolValidates

\* A cluster of three children in which a later child, of BreakSeq, wins
\* over a qualifying child of BreakDancer that stands first in the list.
C5_Witness ==
    /\ pc = "validated" /\ Len(before.sub_intervals) = 3
    /\ before.sv_type \in svs_of_interest
    /\ Cardinality(QualifyingTools) >= 2
    /\ 4 \in QualifyingTools
    /\ before.sub_intervals[1].sources = {"BreakDancer"}
    /\ cluster.validating_interval = 3
    /\ cluster.sub_intervals[3].sources = {"BreakSeq"}
    /\ cluster.is_precise

\* C6: after do_validation, is_validated only if the interval has more than
\* one source; an interval without sub_intervals is not validated and has no
\* validating_interval.
C6_SingleSourceNeverValidates ==
    pc = "validated" =>
        /\ cluster.is_validated => Cardinality(cluster.sources) > 1
        /\ cluster.sub_intervals = <<>> =>
              (~cluster.is_validated /\ cluster.validating_interval = 0)

\* A leaf of interest that do_validation has found precise and left
\* unvalidated.
C6_Witness ==
    /\ pc = "validated" /\ cluster.sub_intervals = <<>>
    /\ cluster.sv_type \in svs_of_interest
    /\ cluster.is_precise /\ ~cluster.is_validated

\* C7: after do_validation, the tool of the validating interval has called
\* exactly one of the cluster's children.
C7_AmbiguitySuppression ==
    (pc = "validated" /\ cluster.validating_interval # 0) =>
        Cardinality(ChildrenOf(cluster,
            FirstSource(cluster.sub_intervals[cluster.validating_interval]))) = 1

\* Pindel called two children that both pass the overlap test, and the
\* cluster is validated by its one BreakDancer child.
C7_Witness ==
    /\ pc = "validated" /\ cluster.validating_interval # 0
    /\ Cardinality(ChildrenOf(before, "Pindel")) = 2
    /\ \A i \in ChildrenOf(before, "Pindel") :
          overlaps(Tested, before.sub_intervals[i], overlap_ratio, overlap_ratio, 1, 1)
    /\ cluster.sub_intervals[cluster.validating_interval].sources = {"BreakDancer"}
    /\ cluster.is_validated

\* C8: fix_pos on an imprecise INS leaves start, sets end to the start and
\* sets the bound to ("0", w), w the width the interval had.
C8_FixPosImpreciseInsertion ==
    (/\ pc = "fixed" /\ before.sv_type = "INS" /\ ~before.is_precise
     /\ before.start <= before.end)
        => /\ cluster.start = before.start
           /\ cluster.end = before.start
           /\ cluster.cipos = <<"0", FormatD(before.end - before.start)>>

====
